---- MODULE Spec2Model ----
(***************************************************************************)
(* visionQuest-offline: the record lifecycle controller (App component)    *)
(* and the local analysis aggregator (services/localAiService.ts).         *)
(*                                                                         *)
(* Optional values of the TypeScript code (x?: T, undefined) are modelled  *)
(* as sequences of length at most one: <<>> is undefined, <<v>> is v.      *)
(***************************************************************************)
EXTENDS Integers, Sequences, FiniteSets, TLC

\* ------------------------------------------------------------------ bounds
\* Total number of files the user submits over a run of the program.
MaxFiles == 2
\* Largest number of files in one submit.
MaxBatch == MaxFiles
\* Total number of analyzeSingleRecord passes scheduled over a run.
MaxPasses == 5
\* Largest number of raw face detections of one image.
MaxFaces == 2
\* Largest number of raw object detections of one image.
MaxDetections == 2

\* ------------------------------------------------------------ option type
Undefined == <<>>

Some(v) == <<v>>

IsSet(o) == o # <<>>

\* JavaScript truthiness of an optional string: undefined and "" are falsy.
Truthy(o) == o # <<>> /\ o # <<"">>

\* --------------------------------------------------- translations (t.*)
\* t.unknownError: the generic fallback text of the translation table.
UnknownError == "unknownError"

\* ------------------------------------------------------- Metadata provider
\* What exifr.parse yields for a file: nothing, or a tag record.
NoOutput == Undefined

EmptyOutput ==
  Some([Make |-> Undefined, DateTimeOriginal |-> Undefined,
        latitude |-> Undefined, longitude |-> Undefined])

CameraOutput ==
  Some([Make |-> Some("Canon"), DateTimeOriginal |-> Some("2020"),
        latitude |-> Undefined, longitude |-> Undefined])

FullOutput ==
  Some([Make |-> Some("Canon"), DateTimeOriginal |-> Some("2020"),
        latitude |-> Some(50), longitude |-> Some(19)])

\* The embedded metadata of the files the user submits. A file without
\* metadata behaves as one whose extraction fails: both yield {}.
FileMetas == {FullOutput}

\* Every kind of embedded metadata.
AllFileMetas == {NoOutput, EmptyOutput, CameraOutput, FullOutput}

\* The empty partial result {} of extractExifData.
EmptyExifData == [keys |-> {}, exif |-> Undefined, location |-> Undefined]

\* extractExifData after exifr.parse returned `output`; `threw` is a parse
\* failure, which the function swallows.
extractExifData(output, threw) ==
  IF threw \/ output = Undefined
  THEN EmptyExifData
  ELSE LET o == output[1] IN
       [keys     |-> {"exif", "location"},
        exif     |-> Some([make     |-> o.Make,
                           dateTime |-> IF IsSet(o.DateTimeOriginal)
                                        THEN o.DateTimeOriginal[1] ELSE ""]),
        location |-> IF IsSet(o.latitude) /\ IsSet(o.longitude)
                     THEN Some([lat |-> o.latitude[1], lng |-> o.longitude[1]])
                     ELSE Undefined]

\* ------------------------------------------------------ Analysis Aggregator
\* The awaited steps of analyzeImageLocal that can reject.
Signals == {"load", "object", "scene", "face", "text"}

\* The four detector adapters among them.
Adapters == {"object", "scene", "face", "text"}

\* A thrown value as the controller reads it: only its .message matters.
\* loadImage rejects with the image's error event, which has no message.
ErrorEvent == [message |-> Undefined]

\* The rejection of an adapter's provider call.
AdapterError(s) ==
  [message |-> Some(CASE s = "object" -> "detect failed"
                      [] s = "scene" -> "classify failed"
                      [] s = "face" -> "faces failed"
                      [] OTHER -> "ocr failed")]

NoFailure == [s \in Signals |-> Undefined]

FailureOf(s, e) == [NoFailure EXCEPT ![s] = Some(e)]

\* Raw provider results of one image (when the provider call succeeds).
RawDetections == <<"dog">>

RawScenePredictions == <<"park">>

\* One raw face detection: its box, fd.age in tenths of a year, fd.gender and
\* fd.expressions (the entries of the object in key order, scores in
\* thousandths; undefined when the detection carries none).
RawFace(x, width, age10, gender, expressions) ==
  [x |-> x, width |-> width, age10 |-> age10, gender |-> gender,
   expressions |-> expressions]

RawFaceDetections ==
  <<RawFace(40, 20, 304, "female",
            Some(<<[emotion |-> "neutral", score |-> 200],
                   [emotion |-> "happy", score |-> 800]>>))>>

\* mlCanvas of the image (its width).
\* The pixels getDominantColors samples are kept with the column they are
\* in (one row of samples across the boxes of the faces).
RawCanvas ==
  [width  |-> 100,
   pixels |-> <<[x |-> 5, color |-> "#aa0000"], [x |-> 13, color |-> "#aa0000"],
                [x |-> 50, color |-> "#00aa00"], [x |-> 76, color |-> "#0000aa"],
                [x |-> 90, color |-> "#0000aa"], [x |-> 95, color |-> "#cccccc"]>>]

RawText == "hello"

\* categoryTranslations[d.class] || d.class
categoryTranslation(c) ==
  CASE c = "dog" -> "pies"
    [] c = "person" -> "osoba"
    [] OTHER -> c

\* sceneTranslations[topScene] || topScene, then first letter upper-cased.
sceneryOf(scenePredictions) ==
  IF scenePredictions = <<>> THEN ""
  ELSE CASE scenePredictions[1] = "park" -> "Park"
         [] scenePredictions[1] = "forest" -> "Las"
         [] OTHER -> scenePredictions[1]

\* The position thresholds, in hundredths of the image width.
LeftThreshold == 33

RightThreshold == 66

\* centerX = box.x + box.width / 2, then
\* centerX < imageWidth * 0.33 -> 'left', centerX > imageWidth * 0.66 ->
\* 'right', else 'center'. Both sides are scaled by 200 to stay in integers.
positionOf(box, imageWidth) ==
  LET centerX200 == 200 * box.x + 100 * box.width
  IN IF centerX200 < 2 * LeftThreshold * imageWidth THEN "left"
     ELSE IF centerX200 > 2 * RightThreshold * imageWidth THEN "right"
     ELSE "center"

\* Math.round of a non-negative n / d.
Round(n, d) == (2 * n + d) \div (2 * d)

\* sortedEmotions[0] of Object.entries(fd.expressions).sort(by score,
\* descending): the sort is stable, so it is the first entry among those
\* with the highest score.
RECURSIVE topExpression(_)
topExpression(entries) ==
  IF Len(entries) = 1 THEN entries[1]
  ELSE LET rest == topExpression(Tail(entries))
       IN IF rest.score > entries[1].score THEN rest ELSE entries[1]

\* The FaceDetail pushed for one raw detection.
faceDetail(fd, imageWidth) ==
  LET box == [x |-> fd.x, width |-> fd.width]
      top == IF IsSet(fd.expressions) THEN topExpression(fd.expressions[1])
             ELSE [emotion |-> "neutral", score |-> 0]
  IN [age |-> Round(fd.age10, 10), gender |-> fd.gender,
      emotion |-> top.emotion, emotionScore |-> top.score,
      position |-> positionOf(box, imageWidth), box |-> box]

\* faceDetections.forEach(fd => faces.push(...))
facesOf(faceDetections, imageWidth) ==
  [i \in DOMAIN faceDetections |-> faceDetail(faceDetections[i], imageWidth)]

\* Insertion of a face behind every face whose box.x is not greater.
RECURSIVE insertFace(_, _)
insertFace(sorted, face) ==
  IF sorted = <<>> THEN <<face>>
  ELSE IF face.box.x < Head(sorted).box.x THEN <<face>> \o sorted
  ELSE <<Head(sorted)>> \o insertFace(Tail(sorted), face)

\* A variant of the sort that leaves the faces in detection order.
facesInDetectionOrder(faces) == faces

\* faces.sort((a, b) => a.box.x - b.box.x): a stable sort, ascending box.x.
RECURSIVE sortFaces(_)
sortFaces(faces) ==
  IF faces = <<>> THEN <<>>
  ELSE insertFace(sortFaces(SubSeq(faces, 1, Len(faces) - 1)),
                  faces[Len(faces)])

RECURSIVE sumOfAges(_)
sumOfAges(faces) ==
  IF faces = <<>> THEN 0 ELSE Head(faces).age + sumOfAges(Tail(faces))

\* Template strings are sequences of their pieces; '' is <<>>.
EmptyString == <<>>

\* A variant of the age summary that is only built for several faces.
ageEstimateOfSeveral(faces) ==
  IF Len(faces) > 1
  THEN <<"Wykryto ", ToString(Len(faces)), " twarze. ">>
  ELSE EmptyString

\* ageEstimate (lang 'pl'): '' without faces, else the count (for several
\* faces), the rounded average age and the first face's gender.
ageEstimateOf(faces) ==
  IF Len(faces) > 0
  THEN (IF Len(faces) > 1
        THEN <<"Wykryto ", ToString(Len(faces)), " twarze. ">>
        ELSE <<>>)
       \o <<"Osoba ok. ", ToString(Round(sumOfAges(faces), Len(faces))),
            " lat (",
            IF faces[1].gender = "male" THEN "Mezczyzna" ELSE "Kobieta",
            ")">>
  ELSE EmptyString

\* emotionTranslations[emotion].pl, or the emotion itself.
emotionTranslation(emotion) ==
  CASE emotion = "neutral" -> "Neutralny"
    [] emotion = "happy" -> "Radosc"
    [] emotion = "sad" -> "Smutek"
    [] emotion = "angry" -> "Gniew"
    [] OTHER -> emotion

\* emotionEstimate: built when firstFace.emotionScore > 0.1.
emotionEstimateOf(faces) ==
  IF Len(faces) > 0 /\ faces[1].emotionScore > 100
  THEN <<emotionTranslation(faces[1].emotion), " (",
         ToString(Round(faces[1].emotionScore, 10)), "%)">>
  ELSE EmptyString

\* objects = detections.map(d => categoryTranslations[d.class] || d.class)
objectsOf(detections) ==
  [i \in DOMAIN detections |-> categoryTranslation(detections[i])]

\* The colour faceapi.draw strokes boxes and landmarks with.
OverlayColor == "#overlay"

\* faceapi.draw.drawDetections(mlCanvas, faceDetections) and
\* drawFaceLandmarks(mlCanvas, faceDetections): the strokes of a box paint
\* the pixels of its left and right edge columns on the canvas they are
\* given.
drawOverlay(canvas, faceDetections) ==
  [canvas EXCEPT
     !.pixels =
       [i \in DOMAIN canvas.pixels |->
          IF \E k \in DOMAIN faceDetections :
               canvas.pixels[i].x \in
                 {faceDetections[k].x,
                  faceDetections[k].x + faceDetections[k].width}
          THEN [canvas.pixels[i] EXCEPT !.color = OverlayColor]
          ELSE canvas.pixels[i]]]

\* mlCanvas after the face block: the overlay is drawn directly on the
\* analysis canvas when there are face detections.
canvasAfterFaces(canvas, faceDetections) ==
  IF Len(faceDetections) > 0 THEN drawOverlay(canvas, faceDetections)
  ELSE canvas

\* markedUpImageUrl: mlCanvas.toDataURL(...) after the drawing, '' without
\* face detections (the data URL is the pixels it encodes).
markedUpImageUrlOf(canvas, faceDetections) ==
  IF Len(faceDetections) > 0
  THEN Some(drawOverlay(canvas, faceDetections).pixels)
  ELSE Undefined

\* The keys of `colors` in insertion order: each colour at its first sample.
RECURSIVE colorKeys(_)
colorKeys(pixels) ==
  IF pixels = <<>> THEN <<>>
  ELSE LET before == colorKeys(SubSeq(pixels, 1, Len(pixels) - 1))
           c == pixels[Len(pixels)].color
       IN IF \E i \in DOMAIN before : before[i] = c THEN before
          ELSE Append(before, c)

colorCount(pixels, c) ==
  Cardinality({i \in DOMAIN pixels : pixels[i].color = c})

\* Insertion of an entry behind every entry whose count is not smaller.
RECURSIVE insertColor(_, _, _)
insertColor(sorted, c, pixels) ==
  IF sorted = <<>> THEN <<c>>
  ELSE IF colorCount(pixels, c) > colorCount(pixels, Head(sorted))
       THEN <<c>> \o sorted
       ELSE <<Head(sorted)>> \o insertColor(Tail(sorted), c, pixels)

\* Object.entries(colors).sort((a, b) => b[1] - a[1]): stable, by count
\* descending.
RECURSIVE sortColors(_, _)
sortColors(keys, pixels) ==
  IF keys = <<>> THEN <<>>
  ELSE insertColor(sortColors(SubSeq(keys, 1, Len(keys) - 1), pixels),
                   keys[Len(keys)], pixels)

\* getDominantColors(canvas): the three most frequent colours among the
\* sampled pixels.
getDominantColors(canvas) ==
  LET sorted == sortColors(colorKeys(canvas.pixels), canvas.pixels)
  IN SubSeq(sorted, 1, IF Len(sorted) < 3 THEN Len(sorted) ELSE 3)

\* The part of analyzeImageLocal after Promise.all: the returned fields
\* computed from the four signals and the canvas.
aggregate(detections, scenePredictions, faceDetections, ocrText, canvas) ==
  LET faces == sortFaces(facesOf(faceDetections, canvas.width))
  IN [objects         |-> objectsOf(detections),
      scenery         |-> sceneryOf(scenePredictions),
      faces           |-> faces,
      ageEstimate     |-> ageEstimateOf(faces),
      emotionEstimate |-> emotionEstimateOf(faces),
      dominantColors  |->
        getDominantColors(canvasAfterFaces(canvas, faceDetections)),
      markedUpImageUrl |-> markedUpImageUrlOf(canvas, faceDetections),
      ocrText         |-> IF ocrText = "" THEN Undefined ELSE Some(ocrText)]

Returned(a) == [ok |-> TRUE, analysis |-> Some(a), error |-> Undefined]

Thrown(e) == [ok |-> FALSE, analysis |-> Undefined, error |-> Some(e)]

\* The returned fields for the submitted image, by whether the face chain
\* fell back to [] and performOCR to "".
RawAggregate ==
  [faceFailed \in BOOLEAN, textFailed \in BOOLEAN |->
     aggregate(RawDetections, RawScenePredictions,
               IF faceFailed THEN <<>> ELSE RawFaceDetections,
               IF textFailed THEN "" ELSE RawText,
               RawCanvas)]

\* analyzeImageLocal(url, lang) for the pass `pass`, given which of its awaited
\* steps reject (fails[s] is the rejection of step s, or undefined).
\* loadImage is awaited bare; objectModel.detect and sceneModel.classify sit
\* in Promise.all with no catch of their own; the face chain has
\* .catch(() => []); performOCR returns "" from its own try/catch.
analyzeImageLocal(fails, pass) ==
  IF IsSet(fails["load"]) THEN Thrown(fails["load"][1])
  ELSE IF IsSet(fails["object"]) THEN Thrown(fails["object"][1])
  ELSE IF IsSet(fails["scene"]) THEN Thrown(fails["scene"][1])
  ELSE
    LET a == RawAggregate[IsSet(fails["face"]), IsSet(fails["text"])]
    IN Returned([pass            |-> pass,
                 objects         |-> a.objects,
                 scenery         |-> a.scenery,
                 faces           |-> a.faces,
                 ageEstimate     |-> a.ageEstimate,
                 emotionEstimate |-> a.emotionEstimate,
                 dominantColors  |-> a.dominantColors,
                 markedUpImageUrl |-> a.markedUpImageUrl,
                 ocrText         |-> a.ocrText,
                 exif            |-> Undefined,
                 location        |-> Undefined])

\* ------------------------------------------------ Record Lifecycle Controller
VARIABLES
  images,          \* useState<ImageRecord[]>: the tracked records, newest first
  isProcessing,    \* useState(false)
  isModelLoading,  \* useState(true)
  loadAi,          \* position of the loadAi effect: "pending", "done", "failed"
  runs,            \* the processFiles/handleRetry/handleRetryAllFailed calls
                   \* suspended at `await analyzeSingleRecord(...)`
  exifs,           \* the extractExifData(url) promises not yet settled
  revoked,         \* ids whose object URL was revoked (URL.revokeObjectURL)
  nextId,          \* the next fresh record identity
  nextPass,        \* the number of the next analyzeSingleRecord pass
  call,            \* observation: the function call under examination
  hung,            \* observation: the passes with a provider call that
                   \* never settles
  discarded        \* observation: the files processFiles was handed and
                   \* returned without creating a record for

vars == <<images, isProcessing, isModelLoading, loadAi, runs, exifs, revoked,
          nextId, nextPass, call, hung, discarded>>

\* The observation variables. They are no state of the program: a
\* specification records in them what its properties are about, and the
\* others leave them alone.
observations == <<call, hung, discarded>>

\* No function call is under examination.
NoCall == [fn |-> "none"]

NoObservation ==
  /\ call = NoCall
  /\ hung = {}
  /\ discarded = 0

Ids == 1..MaxFiles

\* The ids of a list of records, in list order.
IdsOf(imgs) == [i \in DOMAIN imgs |-> imgs[i].id]

Tracked(imgs) == {imgs[i].id : i \in DOMAIN imgs}

\* images.find(i => i.id === id), for an id that is tracked.
Find(imgs, id) == imgs[CHOOSE i \in DOMAIN imgs : imgs[i].id = id]

\* An ImageRecord as processFiles creates it. `file` is the File behind the
\* object URL (its embedded metadata). `thrown` is a history field, no field
\* of the program: the value the catch block last caught for this record,
\* kept as long as the error message it produced.
NewRecord(id, file) ==
  [id |-> id, url |-> id, file |-> file, status |-> "pending",
   analysis |-> Undefined, error |-> Undefined, thrown |-> Undefined]

\* A variant of the 'analyzing' write that also drops the analysis of the
\* earlier pass ({ ...img, status: 'analyzing', error: undefined,
\* analysis: undefined }).
AnalyzingWriteResetting(imgs, recordId) ==
  [i \in DOMAIN imgs |->
     IF imgs[i].id = recordId
     THEN [imgs[i] EXCEPT !.status = "analyzing", !.error = Undefined,
                          !.thrown = Undefined, !.analysis = Undefined]
     ELSE imgs[i]]

\* setImages(prev => prev.map(img => img.id === recordId
\*   ? { ...img, status: 'analyzing', error: undefined } : img))
AnalyzingWrite(imgs, recordId) ==
  [i \in DOMAIN imgs |->
     IF imgs[i].id = recordId
     THEN [imgs[i] EXCEPT !.status = "analyzing", !.error = Undefined,
                          !.thrown = Undefined]
     ELSE imgs[i]]

\* A variant of the completion write that spreads the new snapshot over the
\* analysis already held ({ ...img.analysis, ...analysis }), so that metadata
\* merged into an earlier analysis survives the pass.
CompletedWriteKeepingMetadata(imgs, recordId, analysis) ==
  [i \in DOMAIN imgs |->
     IF imgs[i].id = recordId
     THEN [imgs[i] EXCEPT
             !.status = "completed",
             !.analysis =
               IF IsSet(@)
               THEN Some([analysis EXCEPT !.exif = imgs[i].analysis[1].exif,
                                          !.location = imgs[i].analysis[1].location])
               ELSE Some(analysis)]
     ELSE imgs[i]]

\* setImages(prev => prev.map(img => img.id === recordId
\*   ? { ...img, status: 'completed', analysis } : img))
CompletedWrite(imgs, recordId, analysis) ==
  [i \in DOMAIN imgs |->
     IF imgs[i].id = recordId
     THEN [imgs[i] EXCEPT !.status = "completed", !.analysis = Some(analysis)]
     ELSE imgs[i]]

\* A variant of the message selection without the fallback (error.message
\* alone, '' when the error carries none).
ErrorMessageWithoutFallback(error) ==
  IF IsSet(error.message) THEN error.message[1] ELSE ""

\* error.message || t.unknownError
ErrorMessage(error) ==
  IF Truthy(error.message) THEN error.message[1] ELSE UnknownError

\* A variant of the failure write that puts the record back when the map
\* does not hold it any more (an upsert instead of a map).
ErrorWriteUpserting(imgs, recordId, error) ==
  LET rec == [id |-> recordId, url |-> recordId, file |-> NoOutput,
              status |-> "error", analysis |-> Undefined,
              error |-> Some(IF Truthy(error.message) THEN error.message[1]
                             ELSE UnknownError),
              thrown |-> Some(error)]
  IN IF \E i \in DOMAIN imgs : imgs[i].id = recordId
     THEN [i \in DOMAIN imgs |->
             IF imgs[i].id = recordId
             THEN [imgs[i] EXCEPT !.status = "error", !.error = rec.error,
                                  !.thrown = rec.thrown]
             ELSE imgs[i]]
     ELSE <<rec>> \o imgs

\* setImages(prev => prev.map(img => img.id === recordId
\*   ? { ...img, status: 'error', error: error.message || t.unknownError } : img))
ErrorWrite(imgs, recordId, error) ==
  [i \in DOMAIN imgs |->
     IF imgs[i].id = recordId
     THEN [imgs[i] EXCEPT !.status = "error",
                          !.error = Some(ErrorMessage(error)),
                          !.thrown = Some(error)]
     ELSE imgs[i]]

\* A variant of the spread that toggles: a key the analysis already holds is
\* dropped instead of overwritten.
SpreadToggling(analysis, exifData) ==
  [analysis EXCEPT
     !.exif     = IF "exif" \in exifData.keys /\ ~IsSet(@)
                  THEN exifData.exif ELSE Undefined,
     !.location = IF "location" \in exifData.keys /\ ~IsSet(@)
                  THEN exifData.location ELSE Undefined]

\* { ...img.analysis, ...exifData }: every own key of exifData overwrites.
Spread(analysis, exifData) ==
  [analysis EXCEPT
     !.exif     = IF "exif" \in exifData.keys THEN exifData.exif ELSE @,
     !.location = IF "location" \in exifData.keys THEN exifData.location ELSE @]

\* A variant of the merge callback without the identity test: the result is
\* spread into every record that holds an analysis.
MergeWriteEveryRecord(imgs, recordId, exifData) ==
  IF IsSet(exifData.exif) \/ IsSet(exifData.location)
  THEN [i \in DOMAIN imgs |->
          IF ~IsSet(imgs[i].analysis)
          THEN imgs[i]
          ELSE [imgs[i] EXCEPT
                  !.analysis = Some([imgs[i].analysis[1] EXCEPT
                                       !.exif = exifData.exif,
                                       !.location = exifData.location])]]
  ELSE imgs

\* The .then callback of extractExifData(url) in analyzeSingleRecord.
MergeWrite(imgs, recordId, exifData) ==
  IF IsSet(exifData.exif) \/ IsSet(exifData.location)
  THEN [i \in DOMAIN imgs |->
          IF imgs[i].id # recordId \/ ~IsSet(imgs[i].analysis)
          THEN imgs[i]
          ELSE [imgs[i] EXCEPT
                  !.analysis = Some(Spread(imgs[i].analysis[1], exifData))]]
  ELSE imgs

\* A variant of the control flow in which extractExifData(url) is launched
\* whatever the outcome of the awaited analyzeImageLocal (as from a finally
\* block).
ExifStartedAlways(result) == result.ok \/ ~result.ok

\* Line 399 is reached only when the awaited analyzeImageLocal returned: a
\* rejection jumps to the catch block.
ExifStarted(result) == result.ok

\* The record a run is analyzing, and the number of that pass.
Cur(run) == run.todo[run.idx]

PassOf(run) == run.base + run.idx - 1

\* A handler suspended at its first `await analyzeSingleRecord(...)`. A pass
\* that starts when its object URL is already revoked cannot load its image.
NewRun(kind, todo, base) ==
  [kind |-> kind, todo |-> todo, idx |-> 1, base |-> base,
   doomed |-> todo[1] \in revoked]

Init ==
  /\ images = <<>>
  /\ isProcessing = FALSE
  /\ isModelLoading = TRUE
  /\ loadAi = "pending"
  /\ runs = {}
  /\ exifs = {}
  /\ revoked = {}
  /\ nextId = 1
  /\ nextPass = 1

\* loadAi: initModels() resolved.
LoadAiDone ==
  /\ loadAi = "pending"
  /\ loadAi' = "done"
  /\ isModelLoading' = FALSE
  /\ UNCHANGED <<images, isProcessing, runs, exifs, revoked, nextId,
                 nextPass>>

\* loadAi: initModels() rejected; the catch only logs.
LoadAiFailed ==
  /\ loadAi = "pending"
  /\ loadAi' = "failed"
  /\ UNCHANGED <<images, isProcessing, isModelLoading, runs, exifs, revoked,
                 nextId, nextPass>>

\* The non-empty file lists of one submit.
FileLists == UNION {[1..n -> FileMetas] : n \in 1..MaxBatch}

AllFileLists == UNION {[1..n -> AllFileMetas] : n \in 1..MaxBatch}

\* processFiles(files), files being the metadata of the image files chosen.
\* Runs to the first await: the records are created 'pending' and prepended,
\* and the first one enters 'analyzing'.
processFiles(files) ==
  IF isModelLoading
  THEN UNCHANGED <<images, isProcessing, isModelLoading, loadAi, runs, exifs,
                   revoked, nextId, nextPass>>
  ELSE
    LET n == Len(files)
        newRecords == [i \in 1..n |-> NewRecord(nextId + i - 1, files[i])]
    IN /\ nextId + n - 1 <= MaxFiles
       /\ nextPass + n - 1 <= MaxPasses
       /\ isProcessing' = TRUE
       /\ images' = AnalyzingWrite(newRecords \o images, newRecords[1].id)
       /\ runs' = runs \cup {NewRun("processFiles", IdsOf(newRecords), nextPass)}
       /\ nextId' = nextId + n
       /\ nextPass' = nextPass + n
       /\ UNCHANGED <<isModelLoading, loadAi, exifs, revoked>>

\* Uploader.handleChange: the file input is disabled while isLoading
\* (isProcessing || isModelLoading).
HandleChange(files) ==
  /\ ~(isProcessing \/ isModelLoading)
  /\ processFiles(files)

\* Uploader.handleDrop: the drop zone has no disabled state.
HandleDrop(files) ==
  /\ TRUE
  /\ processFiles(files)

\* AnalysisSidebar shows the retry button of the selected record only while
\* its status is 'error'; the click calls handleRetry(id).
HandleRetry(id) ==
  /\ id \in Tracked(images)
  /\ Find(images, id).status = "error"
  /\ nextPass <= MaxPasses
  /\ isProcessing' = TRUE
  /\ images' = AnalyzingWrite(images, id)
  /\ runs' = runs \cup {NewRun("handleRetry", <<id>>, nextPass)}
  /\ nextPass' = nextPass + 1
  /\ UNCHANGED <<isModelLoading, loadAi, exifs, revoked, nextId>>

IsError(img) == img.status = "error"

\* The retry-all button is rendered when hasFailedItems and is disabled while
\* isProcessing; the click calls handleRetryAllFailed().
HandleRetryAllFailed ==
  LET failedImages == SelectSeq(images, IsError)
  IN /\ ~isProcessing
     /\ Len(failedImages) > 0
     /\ nextPass + Len(failedImages) - 1 <= MaxPasses
     /\ isProcessing' = TRUE
     /\ images' = AnalyzingWrite(images, failedImages[1].id)
     /\ runs' = runs \cup
                {NewRun("handleRetryAllFailed", IdsOf(failedImages), nextPass)}
     /\ nextPass' = nextPass + Len(failedImages)
     /\ UNCHANGED <<isModelLoading, loadAi, exifs, revoked, nextId>>

\* clearAll (the button is rendered while images.length > 0), confirmed.
ClearAll ==
  /\ Len(images) > 0
  /\ revoked' = revoked \cup Tracked(images)
  /\ images' = <<>>
  /\ UNCHANGED <<isProcessing, isModelLoading, loadAi, runs, exifs, nextId,
                 nextPass>>

\* The outcomes of one analyzeImageLocal call: no step rejects, the image
\* does not load, or the object detector rejects (with or without a message).
Failures ==
  {NoFailure,
   FailureOf("load", ErrorEvent),
   FailureOf("object", AdapterError("object")),
   FailureOf("object", [message |-> Some("")])}

\* The same with each of the four adapters rejecting in turn.
AdapterFailures ==
  Failures \cup {FailureOf(s, AdapterError(s)) : s \in Adapters}

\* The awaited analyzeImageLocal of run `run` settles; analyzeSingleRecord
\* writes 'completed' (and starts extractExifData) or 'error' and returns;
\* its caller resumes: the next record of the loop enters 'analyzing', or the
\* handler ends with setIsProcessing(false).
AnalysisSettles(run, fails) ==
  LET result == analyzeImageLocal(fails, PassOf(run))
      written == IF result.ok
                 THEN CompletedWrite(images, Cur(run), result.analysis[1])
                 ELSE ErrorWrite(images, Cur(run), result.error[1])
      more == run.idx < Len(run.todo)
      next == [run EXCEPT !.idx = run.idx + 1,
                          !.doomed = run.todo[run.idx + 1] \in revoked]
  IN /\ run \in runs
     /\ run.doomed => fails = FailureOf("load", ErrorEvent)
     /\ exifs' = IF ExifStarted(result)
                 THEN exifs \cup {[rec |-> Cur(run), pass |-> PassOf(run),
                                   doomed |-> Cur(run) \in revoked]}
                 ELSE exifs
     /\ images' = IF more THEN AnalyzingWrite(written, Cur(next)) ELSE written
     /\ runs' = IF more THEN (runs \ {run}) \cup {next} ELSE runs \ {run}
     /\ isProcessing' = IF more THEN isProcessing ELSE FALSE
     /\ UNCHANGED <<isModelLoading, loadAi, revoked, nextId, nextPass>>

\* What exifr.parse(url) reads for record `id`: the metadata of its file. For
\* a record no longer tracked the value cannot be observed (the merge maps
\* over records that do not include it).
ParsedOutput(imgs, id) ==
  IF id \in Tracked(imgs) THEN Find(imgs, id).file ELSE NoOutput

\* An extractExifData(url) promise settles and its .then callback runs.
\* `threw` is a failure of exifr.parse, certain when the call started on a
\* revoked URL.
ExifSettles(task, threw) ==
  /\ task \in exifs
  /\ task.doomed => threw
  /\ exifs' = exifs \ {task}
  /\ images' = MergeWrite(images, task.rec,
                          extractExifData(ParsedOutput(images, task.rec), threw))
  /\ UNCHANGED <<isProcessing, isModelLoading, loadAi, runs, revoked,
                 nextId, nextPass>>

Next ==
  \/ LoadAiDone /\ UNCHANGED observations
  \/ LoadAiFailed /\ UNCHANGED observations
  \/ \E files \in FileLists : HandleChange(files) /\ UNCHANGED observations
  \/ \E files \in FileLists : HandleDrop(files) /\ UNCHANGED observations
  \/ \E id \in Ids : HandleRetry(id) /\ UNCHANGED observations
  \/ HandleRetryAllFailed /\ UNCHANGED observations
  \/ ClearAll /\ UNCHANGED observations
  \/ \E run \in runs, fails \in Failures :
       AnalysisSettles(run, fails) /\ UNCHANGED observations
  \/ \E task \in exifs, threw \in BOOLEAN :
       ExifSettles(task, threw) /\ UNCHANGED observations

\* The program after construction, nothing observed yet.
Start == Init /\ NoObservation

Spec == Start /\ [][Next]_vars

\* The controller with every kind of file metadata among the submitted files
\* and every adapter failure among the outcomes of a pass.
NextAllInputs ==
  \/ LoadAiDone /\ UNCHANGED observations
  \/ LoadAiFailed /\ UNCHANGED observations
  \/ \E files \in AllFileLists : HandleChange(files) /\ UNCHANGED observations
  \/ \E files \in AllFileLists : HandleDrop(files) /\ UNCHANGED observations
  \/ \E id \in Ids : HandleRetry(id) /\ UNCHANGED observations
  \/ HandleRetryAllFailed /\ UNCHANGED observations
  \/ ClearAll /\ UNCHANGED observations
  \/ \E run \in runs, fails \in AdapterFailures :
       AnalysisSettles(run, fails) /\ UNCHANGED observations
  \/ \E task \in exifs, threw \in BOOLEAN :
       ExifSettles(task, threw) /\ UNCHANGED observations

SpecAllInputs == Start /\ [][NextAllInputs]_vars

\* ------------------------------------------------------------------ claims
\* The foreground passes in flight on record `id`: the runs suspended in
\* analyzeSingleRecord(id, ...) between its 'analyzing' write and its
\* 'completed' or 'error' write.
InFlight(id) == {run \in runs : Cur(run) = id}

\* C1: for every tracked record identity, at most one foreground analysis is
\* in flight at any time.
C1_OneInFlightPerRecord ==
  \A id \in Tracked(images) : Cardinality(InFlight(id)) <= 1

\* Record `id` has been retried since pass `pass` completed: it is being
\* analyzed again, has since failed, or holds another pass's analysis.
Stale(imgs, id, pass) ==
  LET img == Find(imgs, id)
  IN \/ img.status = "analyzing"
     \/ img.status = "error"
     \/ (IsSet(img.analysis) /\ img.analysis[1].pass # pass)

\* C2: a background metadata merge that settles when its record has been
\* retried since the pass that started it completed changes nothing.
C2_StaleMergeIsNoOp ==
  [][\A task \in exifs \ exifs' :
        (task.rec \in Tracked(images) /\ Stale(images, task.rec, task.pass))
        => images' = images]_vars

Status(id) == Find(images, id).status

\* C3: within one submit the records are analyzed strictly in submission
\* order: while the processFiles call runs, at most one of its records is in
\* 'analyzing', and every record submitted before that one has reached
\* 'completed' or 'error'.
C3_BatchStrictlySequential ==
  \A run \in runs :
    run.kind = "processFiles" =>
      LET analyzing == {j \in DOMAIN run.todo :
                          /\ run.todo[j] \in Tracked(images)
                          /\ Status(run.todo[j]) = "analyzing"}
      IN /\ Cardinality(analyzing) <= 1
         /\ \A j \in analyzing : \A i \in 1..(j - 1) :
              run.todo[i] \in Tracked(images)
              => Status(run.todo[i]) \in {"completed", "error"}

\* The five transitions of the record state machine.
AllowedTransitions ==
  {<<"pending", "analyzing">>, <<"analyzing", "completed">>,
   <<"analyzing", "error">>, <<"completed", "analyzing">>,
   <<"error", "analyzing">>}

\* C4: every change of a record's status is one of the five allowed
\* transitions.
C4_OnlyAllowedTransitions ==
  [][\A id \in Tracked(images) \cap Tracked(images') :
        Find(images, id).status # Find(images', id).status
        => <<Find(images, id).status, Find(images', id).status>>
             \in AllowedTransitions]_vars

\* The analysis of record `id` in `imgs` holds an exif block / a location.
HasExif(imgs, id) ==
  IsSet(Find(imgs, id).analysis) /\ IsSet(Find(imgs, id).analysis[1].exif)

HasLocation(imgs, id) ==
  IsSet(Find(imgs, id).analysis) /\ IsSet(Find(imgs, id).analysis[1].location)

\* C5: metadata is additive-only: an exif block or a location, once in a
\* tracked record's analysis, is in it in every later state.
C5_MetadataNeverRemoved ==
  [][\A id \in Tracked(images) \cap Tracked(images') :
        /\ HasExif(images, id) => HasExif(images', id)
        /\ HasLocation(images, id) => HasLocation(images', id)]_vars

\* The aggregator results that are a returned analysis of pass `pass`.
Snapshots(pass) ==
  {analyzeImageLocal(fails, pass).analysis :
     fails \in {f \in AdapterFailures : analyzeImageLocal(f, pass).ok}}

RetryKinds == {"handleRetry", "handleRetryAllFailed"}

\* C6: a retry pass writes 'analyzing' (error cleared) on its record when it
\* starts, and when it succeeds the record's analysis after the completion
\* write is exactly the snapshot the aggregator returned for that pass, with
\* no exif or location of an earlier analysis in it.
C6_RetrySuccessReplacesAnalysis ==
  [][/\ \A run \in runs' \ runs :
          (run.kind \in RetryKinds /\ Cur(run) \in Tracked(images'))
          => /\ Find(images', Cur(run)).status = "analyzing"
             /\ ~IsSet(Find(images', Cur(run)).error)
     /\ \A run \in runs \ runs' :
          (/\ run.kind \in RetryKinds
           /\ Cur(run) \in Tracked(images)
           /\ \E task \in exifs' \ exifs : task.pass = PassOf(run))
          => /\ Find(images', Cur(run)).status = "completed"
             /\ Find(images', Cur(run)).analysis \in Snapshots(PassOf(run))
             /\ ~HasExif(images', Cur(run))
             /\ ~HasLocation(images', Cur(run))]_vars

\* C6 witness: only one file was ever submitted (it took pass 1) and its
\* record is 'completed' with the analysis of a later pass, that is of a retry.
C6_Witness ==
  /\ nextId = 2
  /\ \E id \in Tracked(images) :
       /\ Find(images, id).status = "completed"
       /\ IsSet(Find(images, id).analysis)
       /\ Find(images, id).analysis[1].pass > 1

\* C7: once clearAll has removed the records, no callback pending for them
\* writes anything: no cleared record is tracked again, and an empty record
\* set stays empty in every step that is not a new submit.
C7_ClearedRecordsStayCleared ==
  [][/\ Tracked(images') \cap revoked' = {}
     /\ (images = <<>> /\ nextId' = nextId) => images' = <<>>]_vars

\* C7 witness: the record set is empty after a clearAll, a batch has gone on
\* to a record cleared under it (the pass before it settled after the clear),
\* and a metadata extraction launched by a pass that settled after the clear
\* is pending.
C7_Witness ==
  /\ images = <<>>
  /\ revoked # {}
  /\ \E run \in runs : run.idx > 1 /\ run.doomed
  /\ \E task \in exifs : task.doomed

\* C8: a record is in 'error' only when its image did not load: the
\* rejection of one detector adapter (object, scene, face, text) alone leaves
\* the pass successful and the record 'completed'.
C8_AdapterFailureStillCompletes ==
  \A id \in Tracked(images) :
    Find(images, id).status = "error"
    => Find(images, id).thrown \notin
         {Some(AdapterError(s)) : s \in Adapters}

\* The message a record in 'error' must show for the failure `error`.
ExpectedMessage(error) ==
  IF IsSet(error.message) /\ error.message[1] # ""
  THEN error.message[1]
  ELSE UnknownError

\* C9: when the aggregator fails for a record the record becomes 'error',
\* and a record in 'error' holds the failure's message verbatim when that
\* message is non-empty and the generic fallback text otherwise, so its error
\* message is never empty.
C9_ErrorMessageVerbatimOrFallback ==
  [][/\ \A run \in runs \ runs' :
          (Cur(run) \in Tracked(images) /\ exifs' = exifs)
          => Find(images', Cur(run)).status = "error"
     /\ \A id \in Tracked(images') :
          Find(images', id).status = "error"
          => /\ IsSet(Find(images', id).thrown)
             /\ IsSet(Find(images', id).error)
             /\ Find(images', id).error[1] # ""
             /\ Find(images', id).error[1]
                  = ExpectedMessage(Find(images', id).thrown[1])]_vars

\* C9 witness: one record in 'error' shows its failure's message verbatim and
\* another one, whose failure carried no message, shows the fallback.
C9_Witness ==
  /\ \E id \in Tracked(images) :
       /\ Find(images, id).status = "error"
       /\ Find(images, id).thrown = Some(AdapterError("object"))
       /\ Find(images, id).error = AdapterError("object").message
  /\ \E id \in Tracked(images) :
       /\ Find(images, id).status = "error"
       /\ ~Truthy(Find(images, id).thrown[1].message)
       /\ Find(images, id).error = Some(UnknownError)

\* C10: a metadata extraction is pending for a tracked record only after a
\* foreground pass on it has succeeded (the record holds an analysis), and a
\* step that puts an exif block or a location on a record finds an analysis
\* already there.
C10_MergeOnlyAfterAnalysis ==
  [][/\ \A task \in exifs' :
          task.rec \in Tracked(images')
          => IsSet(Find(images', task.rec).analysis)
     /\ \A id \in Tracked(images) \cap Tracked(images') :
          ((HasExif(images', id) /\ ~HasExif(images, id))
           \/ (HasLocation(images', id) /\ ~HasLocation(images, id)))
          => IsSet(Find(images, id).analysis)]_vars

\* C10 witness: a metadata merge has been applied to a record.
C10_Witness ==
  \E id \in Tracked(images) : HasExif(images, id) /\ HasLocation(images, id)

\* ------------------------------------------- submits before initialization
\* What a processFiles(files) call leaves behind besides the records it
\* creates: at `if (isModelLoading) return;` it returns with no record, no
\* thrown error and no state written, and the files are counted here.
SubmitObserved(files) ==
  /\ isModelLoading => discarded + Len(files) <= MaxFiles
  /\ discarded' = IF isModelLoading THEN discarded + Len(files) ELSE discarded
  /\ UNCHANGED <<call, hung>>

\* The controller with the outcome of every submit observed.
NextSubmits ==
  \/ LoadAiDone /\ UNCHANGED observations
  \/ LoadAiFailed /\ UNCHANGED observations
  \/ \E files \in FileLists : HandleChange(files) /\ SubmitObserved(files)
  \/ \E files \in FileLists : HandleDrop(files) /\ SubmitObserved(files)
  \/ \E id \in Ids : HandleRetry(id) /\ UNCHANGED observations
  \/ HandleRetryAllFailed /\ UNCHANGED observations
  \/ ClearAll /\ UNCHANGED observations
  \/ \E run \in runs, fails \in Failures :
       AnalysisSettles(run, fails) /\ UNCHANGED observations
  \/ \E task \in exifs, threw \in BOOLEAN :
       ExifSettles(task, threw) /\ UNCHANGED observations

SpecSubmits == Start /\ [][NextSubmits]_vars

\* C11: a submit issued before provider initialization has completed is
\* queued or fails fast with a distinguishable not-ready condition. A
\* processFiles call has no outcome a caller or the user could tell from
\* "nothing was submitted" other than the records it creates, so the claim
\* is that no file handed to processFiles is discarded without a record.
C11_NoSubmitSilentlyDiscarded ==
  discarded = 0

\* ------------------------------------------------- the merge as a function
\* Every result extractExifData can resolve with.
ExifResults ==
  {extractExifData(output, threw) :
     output \in AllFileMetas, threw \in BOOLEAN}

\* The analyses a record can hold when a merge lands: none, a returned
\* snapshot, or a snapshot with the metadata of an earlier merge.
MergeAnalyses ==
  LET snapshot == analyzeImageLocal(NoFailure, 1).analysis[1]
  IN {Undefined} \cup {Some(Spread(snapshot, e)) : e \in ExifResults}

\* The one-record lists the merge is applied to.
MergeRecords ==
  {<<[NewRecord(1, FullOutput) EXCEPT
        !.status = st, !.analysis = a,
        !.error = IF st = "error" THEN Some(UnknownError) ELSE Undefined,
        !.thrown = IF st = "error" THEN Some(ErrorEvent) ELSE Undefined]>> :
     st \in {"analyzing", "completed", "error"}, a \in MergeAnalyses}

\* The calls of the merge callback under examination: `once` and `twice`
\* are the records after the first and after the second application.
MergeCalls ==
  {[fn |-> "merge", imgs |-> imgs, recordId |-> id, exifData |-> e,
    once |-> Undefined, twice |-> Undefined] :
     imgs \in MergeRecords, id \in Ids, e \in ExifResults}

\* The .then callback runs on the records.
MergeOnce ==
  /\ call.fn = "merge"
  /\ ~IsSet(call.once)
  /\ call' = [call EXCEPT
                !.once = Some(MergeWrite(call.imgs, call.recordId,
                                         call.exifData))]
  /\ UNCHANGED <<images, isProcessing, isModelLoading, loadAi, runs, exifs,
                 revoked, nextId, nextPass, hung, discarded>>

\* The same result is merged a second time.
MergeTwice ==
  /\ call.fn = "merge"
  /\ IsSet(call.once)
  /\ ~IsSet(call.twice)
  /\ call' = [call EXCEPT
                !.twice = Some(MergeWrite(call.once[1], call.recordId,
                                          call.exifData))]
  /\ UNCHANGED <<images, isProcessing, isModelLoading, loadAi, runs, exifs,
                 revoked, nextId, nextPass, hung, discarded>>

\* C12: the metadata merge is idempotent: merging the same extractor result
\* a second time leaves the records as they were after the first merge.
C12_MergeIdempotent ==
  (call.fn = "merge" /\ IsSet(call.twice))
  => call.twice = call.once

\* C12 witness: a result was merged twice into a record whose analysis the
\* first merge changed.
C12_Witness ==
  /\ call.fn = "merge"
  /\ IsSet(call.twice)
  /\ call.once # Some(call.imgs)

\* The extractor result carries a non-empty field: a camera field of its
\* exif block, or a GPS coordinate.
HasNonEmptyField(exifData) ==
  \/ /\ IsSet(exifData.exif)
     /\ \/ IsSet(exifData.exif[1].make)
        \/ exifData.exif[1].dateTime # ""
  \/ IsSet(exifData.location)

\* C20: when the background metadata call resolves, the analysis is modified
\* only if the extractor produced a non-empty field: a result whose camera
\* fields are all empty and which has no GPS coordinate leaves the records
\* unchanged.
C20_EmptyResultLeavesAnalysis ==
  (/\ call.fn = "merge"
   /\ IsSet(call.once)
   /\ ~HasNonEmptyField(call.exifData))
  => call.once = Some(call.imgs)

\* -------------------------------------------- the aggregator as a function
\* Raw face detections on a canvas 100 wide: centers at 23, exactly at
\* 0.33 * width, at 43, exactly at 0.66 * width and at 67; emotion scores
\* above, at and below 0.1, and one detection without expressions.
FaceInputs ==
  {RawFace(13, 20, 254, "male",
           Some(<<[emotion |-> "happy", score |-> 900],
                  [emotion |-> "neutral", score |-> 100]>>)),
   RawFace(23, 20, 305, "female",
           Some(<<[emotion |-> "neutral", score |-> 100],
                  [emotion |-> "sad", score |-> 100]>>)),
   RawFace(23, 40, 600, "male",
           Some(<<[emotion |-> "sad", score |-> 50],
                  [emotion |-> "angry", score |-> 600]>>)),
   RawFace(56, 20, 415, "male", Undefined),
   RawFace(57, 20, 186, "female",
           Some(<<[emotion |-> "surprised", score |-> 101]>>))}

DetectionClasses == {"dog", "person", "cat"}

\* The results of the face and object providers for one image, in every
\* order.
FaceDetectionLists == UNION {[1..n -> FaceInputs] : n \in 0..MaxFaces}

DetectionLists == UNION {[1..n -> DetectionClasses] : n \in 0..MaxDetections}

\* The calls of the aggregator under examination; `out` is what it returns.
AggregateCalls ==
  {[fn |-> "aggregate", detections |-> d, faceDetections |-> f,
    out |-> Undefined] :
     d \in DetectionLists, f \in FaceDetectionLists}

\* analyzeImageLocal returns for the providers' results of the call.
Aggregate ==
  /\ call.fn = "aggregate"
  /\ ~IsSet(call.out)
  /\ call' = [call EXCEPT
                !.out = Some(aggregate(call.detections, RawScenePredictions,
                                       call.faceDetections, RawText,
                                       RawCanvas))]
  /\ UNCHANGED <<images, isProcessing, isModelLoading, loadAi, runs, exifs,
                 revoked, nextId, nextPass, hung, discarded>>

\* One call of the merge callback or of the aggregator, on any of the inputs.
StartFunctions ==
  /\ Init
  /\ hung = {}
  /\ discarded = 0
  /\ call \in MergeCalls \cup AggregateCalls

NextFunctions ==
  \/ MergeOnce
  \/ MergeTwice
  \/ Aggregate

SpecFunctions == StartFunctions /\ [][NextFunctions]_vars

\* The aggregator has returned for the call under examination.
Aggregated == call.fn = "aggregate" /\ IsSet(call.out)

\* The position the claim gives a face: 'left' up to and including a center
\* at 0.33 * width, 'right' above 0.66 * width, 'center' between.
claimedPosition(box, imageWidth) ==
  LET centerX200 == 200 * box.x + 100 * box.width
  IN IF centerX200 <= 2 * LeftThreshold * imageWidth THEN "left"
     ELSE IF centerX200 > 2 * RightThreshold * imageWidth THEN "right"
     ELSE "center"

\* C13: the position of every face is the function of box.x, box.width and
\* the image width with center = box.x + box.width / 2: 'right' when center >
\* 0.66 * width, and 'left' for a center up to and exactly at 0.33 * width.
C13_PositionByThresholds ==
  Aggregated =>
    \A i \in DOMAIN call.out[1].faces :
      call.out[1].faces[i].position
        = claimedPosition(call.out[1].faces[i].box, RawCanvas.width)

\* How often `e` occurs in `seq`.
Count(seq, e) == Cardinality({i \in DOMAIN seq : seq[i] = e})

\* C14: for every order of the raw detections, the faces of the returned
\* analysis are sorted by ascending box.x and are a permutation of the faces
\* built from the raw detections.
C14_FacesSortedPermutation ==
  Aggregated =>
    LET faces == call.out[1].faces
        built == facesOf(call.faceDetections, RawCanvas.width)
    IN /\ \A i \in 1..(Len(faces) - 1) : faces[i].box.x <= faces[i + 1].box.x
       /\ Len(faces) = Len(built)
       /\ \A i \in DOMAIN built : Count(faces, built[i]) = Count(built, built[i])

\* C14 witness: the aggregator returned for two raw detections given right
\* to left.
C14_Witness ==
  /\ Aggregated
  /\ Len(call.faceDetections) = 2
  /\ call.faceDetections[1].x > call.faceDetections[2].x

\* C15: without faces ageEstimate and emotionEstimate are both empty; with
\* faces ageEstimate is non-empty, and emotionEstimate is non-empty exactly
\* when the emotionScore of the first face (the leftmost) is above 0.1.
C15_LegacySummaries ==
  Aggregated =>
    LET out == call.out[1]
    IN IF out.faces = <<>>
       THEN out.ageEstimate = EmptyString /\ out.emotionEstimate = EmptyString
       ELSE /\ out.ageEstimate # EmptyString
            /\ (out.emotionEstimate # EmptyString)
                 <=> (out.faces[1].emotionScore > 100)

\* C15 witness: the aggregator returned two faces, the leftmost with a top
\* emotion score of exactly 0.1 and the other one above it, and the
\* emotion summary is empty beside a non-empty age summary.
C15_Witness ==
  /\ Aggregated
  /\ Len(call.out[1].faces) = 2
  /\ call.out[1].faces[1].emotionScore = 100
  /\ call.out[1].faces[2].emotionScore > 100
  /\ call.out[1].emotionEstimate = EmptyString
  /\ call.out[1].ageEstimate # EmptyString

\* C17: the objects list of every returned analysis holds no label twice.
C17_ObjectsDeduplicated ==
  Aggregated =>
    \A i, j \in DOMAIN call.out[1].objects :
      i # j => call.out[1].objects[i] # call.out[1].objects[j]

\* ------------------------------------------------ a provider call that hangs
\* A detector adapter call of the pass of `run` never settles: Promise.all
\* waits for every member and analyzeImageLocal sets no timer, so the awaited
\* promise of that pass stays pending. At most one call hangs.
AdapterNeverSettles(run) ==
  /\ run \in runs
  /\ hung = {}
  /\ hung' = {PassOf(run)}
  /\ UNCHANGED <<images, isProcessing, isModelLoading, loadAi, runs, exifs,
                 revoked, nextId, nextPass, call, discarded>>

\* The awaited analyzeImageLocal of a pass settles once each of its provider
\* calls has.
SettlesUnlessHung(run, fails) ==
  /\ PassOf(run) \notin hung
  /\ AnalysisSettles(run, fails)
  /\ UNCHANGED observations

AnalysisProgress ==
  \E run \in runs, fails \in Failures : SettlesUnlessHung(run, fails)

ExifProgress ==
  \E task \in exifs, threw \in BOOLEAN :
    ExifSettles(task, threw) /\ UNCHANGED observations

NextSlowSignal ==
  \/ LoadAiDone /\ UNCHANGED observations
  \/ LoadAiFailed /\ UNCHANGED observations
  \/ \E files \in FileLists : HandleChange(files) /\ UNCHANGED observations
  \/ \E files \in FileLists : HandleDrop(files) /\ UNCHANGED observations
  \/ \E id \in Ids : HandleRetry(id) /\ UNCHANGED observations
  \/ HandleRetryAllFailed /\ UNCHANGED observations
  \/ ClearAll /\ UNCHANGED observations
  \/ \E run \in runs : AdapterNeverSettles(run)
  \/ AnalysisProgress
  \/ ExifProgress

\* The event loop runs every callback whose promise has settled, and every
\* provider call that does not hang settles; the user's actions and the hang
\* are under no obligation.
SpecSlowSignal ==
  /\ Start
  /\ [][NextSlowSignal]_vars
  /\ WF_vars(AnalysisProgress)
  /\ WF_vars(ExifProgress)

\* C16: a foreground analysis is not blocked for ever by one slow signal:
\* every record that enters 'analyzing' eventually reaches 'completed' or
\* 'error' (or is cleared), also when one detector adapter call never
\* settles.
C16_AnalyzingEventuallySettles ==
  \A id \in Ids :
    (id \in Tracked(images) /\ Find(images, id).status = "analyzing")
    ~> (\/ id \notin Tracked(images)
        \/ Find(images, id).status \in {"completed", "error"})

\* ------------------------------------------------------------ frame effects
\* C18: a background metadata merge, and a background metadata failure,
\* change nothing of a record but its analysis: the step in which an
\* extractExifData promise settles keeps the list of records and, of every
\* record, all fields but analysis; a record other than the promise's own is
\* unchanged entirely.
C18_MergeChangesOnlyAnalysis ==
  [][\A task \in exifs \ exifs' :
        /\ Len(images') = Len(images)
        /\ \A i \in DOMAIN images :
             /\ images'[i] = [images[i] EXCEPT !.analysis = images'[i].analysis]
             /\ images[i].id # task.rec => images'[i] = images[i]]_vars

\* C18 witness: of two tracked records with an analysis and no pass in
\* flight, one holds merged metadata and the other, whose extraction has
\* settled as well, holds none (its extraction failed).
C18_Witness ==
  \E a, b \in Tracked(images) :
    /\ a # b
    /\ HasExif(images, a)
    /\ IsSet(Find(images, b).analysis)
    /\ ~HasExif(images, b)
    /\ exifs = {}
    /\ runs = {}

\* C19: the analyzing -> error transition leaves the record's analysis as it
\* was (absent or attached), and a record entering 'analyzing' has its error
\* cleared and its analysis untouched.
C19_ErrorAndAnalyzingKeepAnalysis ==
  [][\A id \in Tracked(images) \cap Tracked(images') :
        LET before == Find(images, id)
            after == Find(images', id)
        IN /\ (before.status = "analyzing" /\ after.status = "error")
              => after.analysis = before.analysis
           /\ (before.status # "analyzing" /\ after.status = "analyzing")
              => /\ ~IsSet(after.error)
                 /\ after.analysis = before.analysis]_vars

\* C19 witness: a record is in 'error' with the analysis of an earlier pass
\* still attached.
C19_Witness ==
  \E id \in Tracked(images) :
    /\ Find(images, id).status = "error"
    /\ IsSet(Find(images, id).analysis)

\* C21: the face overlay is rendered on a copy of the normalized surface:
\* the dominant colors of a returned analysis are those of the unmodified
\* normalized pixels the detectors received, with or without faces.
C21_ColorsFromUnmodifiedSurface ==
  Aggregated => call.out[1].dominantColors = getDominantColors(RawCanvas)

\* ------------------------------------------- passes across the whole system
\* C22: system-wide, at most one foreground analysis is in flight at any
\* time: at most one handler is suspended in analyzeSingleRecord.
C22_OneInFlightSystemWide ==
  Cardinality(runs) <= 1

\* C23: a record in 'completed' has an analysis attached and no error
\* message; a record in 'pending' has neither analysis nor error message.
C23_CompletedAndPendingShape ==
  \A id \in Tracked(images) :
    LET img == Find(images, id)
    IN /\ img.status = "completed"
          => IsSet(img.analysis) /\ ~IsSet(img.error)
       /\ img.status = "pending"
          => ~IsSet(img.analysis) /\ ~IsSet(img.error)

\* C24: isProcessing is true in every state in which some foreground
\* analysis is in flight.
C24_ProcessingWhileInFlight ==
  runs # {} => isProcessing

\* C25: handleRetryAllFailed starts a pass only on a record that is tracked
\* and in 'error' at the moment the pass begins, not on one retried
\* separately or cleared since the click.
C25_RetryAllOnlyErrorRecords ==
  [][\A run \in runs' \ runs :
        run.kind = "handleRetryAllFailed"
        => /\ Cur(run) \in Tracked(images)
           /\ Find(images, Cur(run)).status = "error"]_vars

====
